---- MODULE Spec2Model ----
(***************************************************************************)
(* Model of scripts/sync_from_kaggle_db.py: the one-pass merge of the      *)
(* table `data` of the Kaggle database (Source, schema main) into the      *)
(* table `data` of the local database (Destination, schema local).         *)
(*                                                                         *)
(* A column value is a record [isNull, text]; SQL NULL is the value with   *)
(* isNull = TRUE.  A table is the sequence of its rows in rowid order.     *)
(* The script is straight-line code, so pc names the statement that runs   *)
(* next; an uncaught sqlite3 exception ends the process (pc = "failed").   *)
(***************************************************************************)
EXTENDS Integers, Sequences, FiniteSets, TLC

VARIABLES src, dst, dst0, dstFile, pc, new_rows, src_con, dst_con, msg, err, run

vars == <<src, dst, dst0, dstFile, pc, new_rows, src_con, dst_con, msg, err, run>>

\* ------------------------------------------------------------------ bounds
MaxSrc == 2

MaxDst == 1

MaxRuns == 2

\* ------------------------------------------------------------------ values
Null == [isNull |-> TRUE, text |-> ""]

Text(s) == [isNull |-> FALSE, text |-> s]

RaceIds == {Null, Text("a"), Text("a-b")}

Horses == {Null, Text("c"), Text("b-c")}

Vals == {Text("v1")}

\* Every identity pair once, and one more row that differs from another
\* only in a column outside the identity.
Rows ==
    [race_id : RaceIds, horse : Horses, val : Vals]
        \cup {[race_id |-> Text("a"), horse |-> Text("c"), val |-> Text("v2")]}

SeqsUpTo(S, n) == UNION {[1..k -> S] : k \in 0..n}

\* What the file at LOCAL_DB holds: a database whose table `data` has all
\* the columns, lacks one identity column, or is absent; or a file that is
\* not a database at all.
DstFiles == {"ok", "no_race_id", "no_horse", "no_table", "not_a_db"}

HasTable == dstFile \in {"ok", "no_race_id", "no_horse"}

DstHasCol(c) ==
    /\ HasTable
    /\ c = "race_id" => dstFile # "no_race_id"
    /\ c = "horse" => dstFile # "no_horse"

\* ------------------------------------------------------------- the query
\* SQL `a || b`: NULL if either operand is NULL, else the concatenation.
Concat(a, b) ==
    IF a.isNull \/ b.isNull THEN Null ELSE Text(a.text \o b.text)

\* race_id || '-' || horse
Key(race_id, horse) == Concat(Concat(race_id, Text("-")), horse)

KeyOf(r) == Key(r.race_id, r.horse)

\* A column name inside the subquery is looked up in local.data first and,
\* when local.data has no such column, in the enclosing SELECT's main.data
\* (SQL name resolution for a subquery), here the row `outer`.
Resolve(c, local, outer) ==
    IF DstHasCol(c) THEN local[c] ELSE outer[c]

\* SELECT race_id || '_' || horse FROM local.data
SubqueryKeysOtherSep(outer) ==
    [j \in 1..Len(dst) |->
        Concat(Concat(Resolve("race_id", dst[j], outer), Text("_")),
               Resolve("horse", dst[j], outer))]

\* SELECT race_id || '-' || horse FROM local.data, for one row of main.data
SubqueryKeys(outer) ==
    [j \in 1..Len(dst) |->
        Key(Resolve("race_id", dst[j], outer), Resolve("horse", dst[j], outer))]

Range(s) == {s[i] : i \in 1..Len(s)}

\* x NOT IN (...) with NULL compared like any other value
NotInTwoValued(x, keys) ==
    IF x \in Range(keys) THEN "false" ELSE "true"

\* SQLite's x NOT IN (subquery): true over an empty result whatever x is;
\* otherwise NULL for a NULL x, false on a match, NULL when there is no
\* match but the result holds a NULL, else true.
NotIn(x, keys) ==
    IF Len(keys) = 0 THEN "true"
    ELSE IF x.isNull THEN "null"
    ELSE IF x \in Range(keys) THEN "false"
    ELSE IF Null \in Range(keys) THEN "null"
    ELSE "true"

\* WHERE keeps the rows on which the condition is true (not false, not NULL)
Selected(r) == NotIn(KeyOf(r), SubqueryKeys(r)) = "true"

\* -------------------------------------------------------- PRAGMA table_info
\* The argument of the PRAGMA on line 51 as SQLite's tokens.
TableInfoArg == <<"main", ".", "data">>

\* SQLite's grammar takes one name, number or literal between the
\* parentheses of a PRAGMA: PRAGMA table_info(main.data) is a syntax error
\* (near "."), PRAGMA table_info(data) is not.
PragmaParses(arg) == Len(arg) = 1

\* ------------------------------------------------------------------- Init
Terminated == pc \in {"done", "failed"}

Init ==
    /\ src \in SeqsUpTo(Rows, MaxSrc)
    /\ dstFile \in DstFiles
    /\ dst \in (IF HasTable THEN SeqsUpTo(Rows, MaxDst) ELSE {<<>>})
    /\ dst0 = dst
    /\ pc = "connect"
    /\ new_rows = <<>>
    /\ src_con = "none"
    /\ dst_con = "none"
    /\ msg = "none"
    /\ err = "none"
    /\ run = 1

\* ---------------------------------------------------------------- actions
\* Lines 25-27, at the start of the script; the script may be started again
\* once a run has ended, in a new process with new connections.
Connect ==
    /\ \/ pc = "connect"
       \/ Terminated /\ run < MaxRuns
    /\ run' = IF pc = "connect" THEN run ELSE run + 1
    /\ src_con' = "open"
    /\ dst_con' = "open"
    /\ dst0' = dst
    /\ new_rows' = <<>>
    /\ msg' = "connecting"
    /\ err' = "none"
    /\ pc' = "attach"
    /\ UNCHANGED <<src, dst, dstFile>>

\* Line 33: ATTACH reads the header of the file and raises when it is not a
\* database.
Attach ==
    /\ pc = "attach"
    /\ IF dstFile = "not_a_db"
       THEN pc' = "failed" /\ err' = "attach"
       ELSE pc' = "query" /\ err' = err
    /\ UNCHANGED <<src, dst, dst0, dstFile, new_rows, src_con, dst_con, msg, run>>

\* Lines 36-43: raises when local.data does not exist, else fetches the
\* selected rows of main.data in table order.
Query ==
    /\ pc = "query"
    /\ IF ~HasTable
       THEN /\ pc' = "failed"
            /\ err' = "query"
            /\ new_rows' = new_rows
       ELSE /\ pc' = "check"
            /\ err' = err
            /\ new_rows' = SelectSeq(src, Selected)
    /\ UNCHANGED <<src, dst, dst0, dstFile, src_con, dst_con, msg, run>>

\* Lines 45-48
CheckNewRows ==
    /\ pc = "check"
    /\ IF new_rows = <<>>
       THEN msg' = "all_present" /\ pc' = "close_src"
       ELSE msg' = "found" /\ pc' = "import"
    /\ UNCHANGED <<src, dst, dst0, dstFile, new_rows, src_con, dst_con, err, run>>

\* Lines 50-57.  The PRAGMA of line 51 is executed first; were it to parse,
\* the INSERT would name the columns of main.data, fail when local.data
\* lacks one of them, and otherwise append the batch and commit it.
Import ==
    /\ pc = "import"
    /\ IF ~PragmaParses(TableInfoArg)
       THEN /\ pc' = "failed"
            /\ err' = "pragma"
            /\ UNCHANGED <<dst, msg>>
       ELSE IF ~(DstHasCol("race_id") /\ DstHasCol("horse"))
       THEN /\ pc' = "failed"
            /\ err' = "insert"
            /\ UNCHANGED <<dst, msg>>
       ELSE /\ dst' = dst \o new_rows
            /\ msg' = "imported"
            /\ pc' = "close_src"
            /\ err' = err
    /\ UNCHANGED <<src, dst0, dstFile, new_rows, src_con, dst_con, run>>

\* Line 60
CloseSrc ==
    /\ pc = "close_src"
    /\ src_con' = "closed"
    /\ pc' = "close_dst"
    /\ UNCHANGED <<src, dst, dst0, dstFile, new_rows, dst_con, msg, err, run>>

\* Lines 61-62
CloseDst ==
    /\ pc = "close_dst"
    /\ dst_con' = "closed"
    /\ pc' = "done"
    /\ UNCHANGED <<src, dst, dst0, dstFile, new_rows, src_con, msg, err, run>>

Next ==
    \/ Connect
    \/ Attach
    \/ Query
    \/ CheckNewRows
    \/ Import
    \/ CloseSrc
    \/ CloseDst

Spec == Init /\ [][Next]_vars

\* ------------------------------------------------------------ properties
SchemaOk == dstFile = "ok"

\* The query of line 43 has returned in the current run.
QueryDone ==
    \/ pc \in {"check", "import", "close_src", "close_dst", "done"}
    \/ pc = "failed" /\ err \in {"pragma", "insert"}

\* Some row of table d has the identity key of r / the identity pair of r.
KeyPresent(r, d) == \E j \in 1..Len(d) : KeyOf(d[j]) = KeyOf(r)

PairPresent(r, d) ==
    \E j \in 1..Len(d) : d[j].race_id = r.race_id /\ d[j].horse = r.horse

KeyAbsent(r) == ~KeyPresent(r, dst0)

\* The Source rows whose identity key the pre-run Destination lacks.
AbsentRows == SelectSeq(src, KeyAbsent)

\* The rows the current run has added to Destination.
Appended == SubSeq(dst, Len(dst0) + 1, Len(dst))

HasNullId(r) == r.race_id.isNull \/ r.horse.isNull

DstHasNullId(r) ==
    \/ DstHasCol("race_id") /\ r.race_id.isNull
    \/ DstHasCol("horse") /\ r.horse.isNull

\* C1: after a run that completes without error, every Source row whose
\* identity key the pre-run Destination lacked is in Destination, and the
\* pre-run Destination rows are still there, unaltered.
C1_AbsentRowsPresentAfterRun ==
    (pc = "done" /\ SchemaOk) =>
        /\ \A i \in 1..Len(src) : KeyAbsent(src[i]) => src[i] \in Range(dst)
        /\ Len(dst) >= Len(dst0)
        /\ SubSeq(dst, 1, Len(dst0)) = dst0

C3_AppendsExactlyAbsentRows ==
    (Terminated /\ SchemaOk) =>
        /\ Appended = AbsentRows
        /\ Len(dst) = Len(dst0) + Len(new_rows)

\* C4: when every identity key of Source already occurs in Destination the
\* run selects no row, reports that nothing is new, never enters the import
\* branch (no insert, no commit), leaves Destination as it was and goes on
\* to the normal end of the script without an error.
C4_NoOpWhenKeysPresent ==
    (SchemaOk /\ QueryDone /\ \A i \in 1..Len(src) : KeyPresent(src[i], dst0)) =>
        /\ new_rows = <<>>
        /\ dst = dst0
        /\ err = "none"
        /\ pc \in {"check", "close_src", "close_dst", "done"}
        /\ pc # "check" => msg = "all_present"

C4_Witness ==
    /\ pc = "done"
    /\ SchemaOk
    /\ Len(src) >= 1
    /\ \A i \in 1..Len(src) : KeyPresent(src[i], dst0)
    /\ msg = "all_present"
    /\ dst = dst0

\* C6: when Destination lacks an identity column the run ends in an error
\* and Destination is unchanged.
C6_MissingColumnFails ==
    (Terminated /\ dstFile \in {"no_race_id", "no_horse"}) =>
        (pc = "failed" /\ dst = dst0)

\* C7: both connections are closed when the run has ended, however it ended.
C7_ConnectionsClosedAtExit ==
    Terminated => (src_con = "closed" /\ dst_con = "closed")

\* C8: a Source row is inserted if and only if no pre-run Destination row
\* has the same race_id and the same horse.
C8_InsertedIffNewPair ==
    (Terminated /\ SchemaOk) =>
        \A i \in 1..Len(src) :
            (src[i] \in Range(Appended)) <=> ~PairPresent(src[i], dst0)

\* C9: when two or more Source rows share an identity key that the pre-run
\* Destination lacks, the run inserts every one of them.
C9_AllDuplicatesInserted ==
    (Terminated /\ SchemaOk) =>
        \A i \in 1..Len(src) :
            (/\ KeyAbsent(src[i])
             /\ \E j \in 1..Len(src) : j # i /\ KeyOf(src[j]) = KeyOf(src[i]))
            => Cardinality({k \in 1..Len(Appended) : KeyOf(Appended[k]) = KeyOf(src[i])})
                 = Cardinality({k \in 1..Len(src) : KeyOf(src[k]) = KeyOf(src[i])})

====
